---- MODULE Spec2Model ----
(***************************************************************************)
(* GlobalSight: the streaming transport (services/geminiService.ts), the   *)
(* session state of the App component (handleAnalyze, handleSendMessage,   *)
(* reset) and the markdown section parser (components/AnalysisDisplay.tsx).*)
(*                                                                         *)
(* A JavaScript string is a sequence of tokens (each token a TLA+ string   *)
(* standing for a run of characters); concatenation is \o, the empty       *)
(* string is << >>.  The parser works on one-character tokens.             *)
(*                                                                         *)
(* Six specifications share the module:                                    *)
(*   Spec       the App session: handlers and the streams they started     *)
(*   SpecStream one call of analyzeContentStream/continueConversationStream*)
(*   SpecError  extractErrorMessage applied to a provider error            *)
(*   SpecParse  the section parser applied to a growing prefix of a text   *)
(*   SpecSources the source list rendered from the accumulated grounding   *)
(*   SpecInputs handleAnalyze and reset over every shape of input          *)
(***************************************************************************)
EXTENDS Integers, Sequences, FiniteSets, TLC

VARIABLES
    \* ---- App session (src/unnamed/part_000) ----
    apiKey,               \* process.env.API_KEY is set
    isLoading,            \* useState(false)
    isStreaming,          \* useState(false)
    result,               \* AnalysisResult | null
    error,                \* string | null
    chatHistory,          \* ChatMessage[]
    initialContextParts,  \* any[]
    calls,                \* the async invocations started by the handlers
    \* ---- one service call (src/services/geminiService.ts) ----
    fn,                   \* which exported function is called
    args,                 \* its arguments
    pc,                   \* "called" | "streaming" | "returned" | "thrown"
    requests,             \* requests handed to ai.models.generateContentStream
    fullText,             \* let fullText = ''
    chunksIn,             \* chunk.text of the chunks consumed so far
    onUpdateLog,          \* the texts onUpdate was invoked with, in order
    thrown,               \* message of the Error the call rejected with
    viaExtract,           \* the catch block (extractErrorMessage) produced it
    \* ---- extractErrorMessage ----
    errIn, errOut,
    \* ---- AnalysisDisplay: section parser, source list ----
    rawMarkdown,          \* the complete text T
    cut,                  \* length of the prefix shown so far
    sections,             \* parse of that prefix
    accumulatedGrounding, \* let accumulatedGrounding of analyzeContentStream
    groundingMetadata,    \* result.groundingMetadata as the display receives it
    uniqueSources         \* the entries renderGrounding shows, or null

sessionVars == <<apiKey, isLoading, isStreaming, result, error, chatHistory,
                 initialContextParts, calls>>
streamVars == <<fn, args, pc, requests, fullText, chunksIn, onUpdateLog, thrown,
                viaExtract>>
errorVars == <<errIn, errOut>>
parseVars == <<rawMarkdown, cut, sections, accumulatedGrounding, groundingMetadata,
               uniqueSources>>
vars == <<sessionVars, streamVars, errorVars, parseVars>>

-----------------------------------------------------------------------------
(* Strings *)

OO == "[object Object]"
EmptyObjectMarker == <<"{}">>

\* String.prototype.includes("[object Object]")
IncludesOO(msg) == \E i \in 1..Len(msg) : msg[i] = OO

\* a JS value that is null / undefined
Null == [null |-> TRUE]
Undefined == [undefined |-> TRUE]

-----------------------------------------------------------------------------
(* extractErrorMessage (geminiService.ts 9-43) *)

\* A field value of an error object.
Absent == [t |-> "absent"]
AnObject == [t |-> "object"]
ANumber == [t |-> "number"]
StrVal(s) == [t |-> "string", s |-> s]

FieldStrings == { << >>, <<"Quota exceeded">>, <<OO>>, <<"{}">>, <<"See ", OO>> }
FieldValues == {Absent, AnObject, ANumber} \cup { StrVal(s) : s \in FieldStrings }

\* kind: what the thrown value is; message, errMessage (error.error.message),
\* respMessage (error.response.data.error.message), statusText: its fields;
\* extra: other own properties ("fields"), or a cycle ("circular").
ErrorObjects ==
    [kind : {"Error", "object"}, message : FieldValues, errMessage : FieldValues,
     respMessage : FieldValues, statusText : FieldValues,
     extra : {"none", "fields", "circular"}, str : {<< >>}]
    \cup [kind : {"string"}, message : {Absent}, errMessage : {Absent},
          respMessage : {Absent}, statusText : {Absent}, extra : {"none"},
          str : FieldStrings]
    \cup [kind : {"null", "undefined"}, message : {Absent}, errMessage : {Absent},
          respMessage : {Absent}, statusText : {Absent}, extra : {"none"},
          str : {<< >>}]

\* error.message: an Error instance inherits message "" from its prototype
MessageOf(e) ==
    IF e.kind = "Error" /\ e.message = Absent THEN StrVal(<< >>) ELSE e.message

\* x && typeof x === 'string'
TruthyString(v) == v.t = "string" /\ v.s # << >>

\* String(v)
StringOf(v) ==
    CASE v.t = "string" -> v.s
      [] v.t = "object" -> <<OO>>
      [] v.t = "number" -> <<"42">>
      [] OTHER -> <<"undefined">>

\* the text JSON.stringify writes for one field value
JsonValue(v) ==
    CASE v.t = "string" -> <<"\"">> \o v.s \o <<"\"">>
      [] v.t = "object" -> <<"{}">>
      [] v.t = "number" -> <<"42">>
      [] OTHER -> << >>

JsonField(name, v) == IF v = Absent THEN << >> ELSE <<name>> \o JsonValue(v)

\* JSON.stringify(error) for a value that reached the last branch
JsonStringify(e) ==
    CASE e.kind = "undefined" -> Undefined
      [] e.kind = "null" -> StrVal(<<"null">>)
      [] OTHER ->
         LET body == JsonField("message:", e.message)
                     \o JsonField("error.message:", e.errMessage)
                     \o JsonField("response.data.error.message:", e.respMessage)
                     \o JsonField("statusText:", e.statusText)
                     \o (IF e.extra = "fields" THEN <<"code:", "500">> ELSE << >>)
         IN  IF body = << >> THEN StrVal(<<"{}">>)
             ELSE StrVal(<<"{">> \o body \o <<"}">>)

\* lines 10-31: the branch that picks msg, then String(msg)
PickMessage(e) ==
    IF TruthyString(e.respMessage) THEN e.respMessage.s
    ELSE IF TruthyString(e.errMessage) THEN e.errMessage.s
    ELSE IF TruthyString(MessageOf(e)) THEN MessageOf(e).s
    ELSE IF e.kind = "Error" THEN StringOf(MessageOf(e))
    ELSE IF e.kind = "string" THEN e.str
    ELSE IF e.extra = "circular" THEN <<"Non-serializable error.">>
    ELSE LET stringified == JsonStringify(e)
         IN  IF stringified = StrVal(<<"{}">>)
             THEN <<"An unknown system error occurred.">>
             ELSE IF stringified = Undefined THEN <<"undefined">>
             ELSE stringified.s

\* faulty variant: the picked message is returned unfiltered
extractErrorMessageUnfiltered(e) == PickMessage(e)

\* lines 33-42
extractErrorMessage(e) ==
    LET msg == PickMessage(e)
    IN  IF IncludesOO(msg) \/ msg = EmptyObjectMarker
        THEN IF TruthyString(e.statusText)
             THEN <<"API Error: ">> \o e.statusText.s
             ELSE <<"Critical Error: The server returned an invalid response format.">>
        ELSE msg

-----------------------------------------------------------------------------
(* The service calls (geminiService.ts 45-196) *)

MaxStreamChunks == 3
MaxHistory == 2

Base64Marker == "base64,"
HasMarker(s) == \E i \in 1..Len(s) : s[i] = Base64Marker
MarkerAt(s, from) ==
    IF \E i \in from..Len(s) : s[i] = Base64Marker
    THEN CHOOSE i \in from..Len(s) :
             s[i] = Base64Marker /\ \A j \in from..(i - 1) : s[j] # Base64Marker
    ELSE Len(s) + 1

\* s.split('base64,')[1]: the text between the first and the second marker,
\* undefined when s holds no marker
SplitSecond(s) ==
    IF ~HasMarker(s) THEN Absent
    ELSE LET i == MarkerAt(s, 1)
             j == MarkerAt(s, i + 1)
         IN  StrVal(SubSeq(s, i + 1, j - 1))

\* lines 63-65 and 77-79
CleanBase64(s) == IF HasMarker(s) THEN SplitSecond(s) ELSE StrVal(s)

InlinePart(data, mimeType) == [inlineData |-> [data |-> data, mimeType |-> mimeType]]
TextPart(t) == [text |-> t]
ServiceFallbackPrompt ==
    <<"Analyze the current state of the world based on available data and general knowledge.">>

\* lines 59-94: the parts of the analysis request
ImageParts(base64Image, imageMimeType) ==
    IF TruthyString(base64Image) /\ TruthyString(imageMimeType)
    THEN <<InlinePart(CleanBase64(base64Image.s), imageMimeType)>>
    ELSE << >>

AudioParts(base64Audio, audioMimeType) ==
    IF TruthyString(base64Audio) /\ TruthyString(audioMimeType)
    THEN <<InlinePart(CleanBase64(base64Audio.s), audioMimeType)>>
    ELSE << >>

\* faulty variant: the default prompt is never added
PromptPartsMissingFallback(textInput, media) ==
    IF textInput # << >> THEN <<TextPart(textInput)>> ELSE << >>

PromptParts(textInput, media) ==
    IF textInput # << >> THEN <<TextPart(textInput)>>
    ELSE IF Len(media) = 0 THEN <<TextPart(ServiceFallbackPrompt)>>
    ELSE << >>

EncodeParts(a) ==
    LET media == ImageParts(a.base64Image, a.imageMimeType)
                 \o AudioParts(a.base64Audio, a.audioMimeType)
    IN  media \o PromptParts(a.textInput, media)

Turn(role, parts) == [role |-> role, parts |-> parts]

\* faulty variant: every replayed turn is sent with the user role
HistoryTurnsAllUser(history) ==
    [i \in 1..Len(history) |-> Turn("user", <<TextPart(history[i].text)>>)]

\* history.forEach(msg => contents.push({role, parts: [{text}]})), lines 160-165
RECURSIVE HistoryTurns(_)
HistoryTurns(history) ==
    IF history = << >> THEN << >>
    ELSE <<Turn(Head(history).role, <<TextPart(Head(history).text)>>)>>
         \o HistoryTurns(Tail(history))

\* lines 152-157
OpeningTurn(parts) == IF Len(parts) > 0 THEN <<Turn("user", parts)>> ELSE << >>

\* faulty variant: the request is built without the opening turn
BuildContentsNoOpening(history, newMessage, parts) ==
    HistoryTurns(history) \o <<Turn("user", <<TextPart(newMessage)>>)>>

\* lines 149-171: the contents of the continuation request
BuildContents(history, newMessage, parts) ==
    OpeningTurn(parts) \o HistoryTurns(history)
    \o <<Turn("user", <<TextPart(newMessage)>>)>>

\* lines 115-118 and 187-188: if (chunkText) fullText += chunkText
AppendChunkText(text, chunkText) ==
    IF TruthyString(chunkText) THEN text \o chunkText.s ELSE text

AnalyzeKeyError == <<"API Key is missing. Please check your environment variables.">>
ContinueKeyError == <<"API Key missing">>

\* ---- inputs ----
ImagePayloads == { << >>, <<"data:image/png;", Base64Marker, "IMG">>, <<"IMG">> }
AudioPayloads == { << >>, <<"data:audio/webm;", Base64Marker, "AUD">>, <<"AUD">> }
OptionalMedia(payloads, mime) ==
    {<<Absent, Absent>>}
    \cup { <<StrVal(p), m>> : p \in payloads, m \in {StrVal(<< >>), StrVal(<<mime>>)} }
Prompts == { << >>, <<"check this river">> }

AnalyzeArgs ==
    { [textInput |-> t, base64Image |-> f[1], imageMimeType |-> f[2],
       base64Audio |-> u[1], audioMimeType |-> u[2]] :
      t \in Prompts, f \in OptionalMedia(ImagePayloads, "image/png"),
      u \in OptionalMedia(AudioPayloads, "audio/webm") }

ChatMessages == [role : {"user", "model"}, text : {<<"hi">>, <<"Thinking...">>}]
RECURSIVE SeqsUpTo(_, _)
SeqsUpTo(S, n) ==
    IF n = 0 THEN {<< >>}
    ELSE LET shorter == SeqsUpTo(S, n - 1)
         IN  shorter \cup { Append(q, x) : q \in shorter, x \in S }
PartsChoices ==
    { << >>, <<TextPart(<<"check this river">>)>>,
      <<InlinePart(StrVal(<<"IMG">>), StrVal(<<"image/png">>)), TextPart(<<"check this river">>)>> }
ContinueArgs ==
    [history : SeqsUpTo(ChatMessages, MaxHistory), newMessage : {<<"hello">>, <<"more">>},
     initialContextParts : PartsChoices]

ChunkTexts == {Absent, StrVal(<<"a">>), StrVal(<<"b">>)}
StreamErrors ==
    { [kind |-> "Error", message |-> StrVal(<<"Network down">>), errMessage |-> Absent,
       respMessage |-> Absent, statusText |-> Absent, extra |-> "none", str |-> << >>],
      [kind |-> "object", message |-> Absent, errMessage |-> Absent,
       respMessage |-> Absent, statusText |-> Absent, extra |-> "none", str |-> << >>],
      [kind |-> "object", message |-> StrVal(<<OO>>), errMessage |-> Absent,
       respMessage |-> Absent, statusText |-> StrVal(<<OO>>), extra |-> "none",
       str |-> << >>] }

NoArgs == [none |-> TRUE]
NoThrow == Absent

\* ---- analyzeContentStream ----
\* lines 53-109: key check, parts, the request
\* faulty variant: the request is issued without looking at the key
AnalyzeCallNoKeyCheck ==
    /\ fn = "analyzeContentStream" /\ pc = "called"
    /\ requests' = Append(requests, <<Turn("user", EncodeParts(args))>>)
    /\ pc' = "streaming"
    /\ UNCHANGED <<thrown, viaExtract>>
    /\ UNCHANGED <<fn, args, fullText, chunksIn, onUpdateLog>>
    /\ UNCHANGED <<sessionVars, errorVars, parseVars>>

AnalyzeCall ==
    /\ fn = "analyzeContentStream" /\ pc = "called"
    /\ IF ~apiKey
       THEN /\ pc' = "thrown"
            /\ thrown' = StrVal(AnalyzeKeyError)
            /\ UNCHANGED <<requests, viaExtract>>
       ELSE /\ requests' = Append(requests, <<Turn("user", EncodeParts(args))>>)
            /\ pc' = "streaming"
            /\ UNCHANGED <<thrown, viaExtract>>
    /\ UNCHANGED <<fn, args, fullText, chunksIn, onUpdateLog>>
    /\ UNCHANGED <<sessionVars, errorVars, parseVars>>

\* lines 114-132: one iteration of for await
AnalyzeChunk(c) ==
    /\ fn = "analyzeContentStream" /\ pc = "streaming"
    /\ Len(chunksIn) < MaxStreamChunks
    /\ chunksIn' = Append(chunksIn, c)
    /\ fullText' = AppendChunkText(fullText, c)
    /\ onUpdateLog' = Append(onUpdateLog, fullText')
    /\ UNCHANGED <<fn, args, pc, requests, thrown, viaExtract>>
    /\ UNCHANGED <<sessionVars, errorVars, parseVars>>

\* the stream ends: the function returns
AnalyzeReturn ==
    /\ fn = "analyzeContentStream" /\ pc = "streaming"
    /\ pc' = "returned"
    /\ UNCHANGED <<fn, args, requests, fullText, chunksIn, onUpdateLog, thrown, viaExtract>>
    /\ UNCHANGED <<sessionVars, errorVars, parseVars>>

\* lines 133-136
AnalyzeCatch(e) ==
    /\ fn = "analyzeContentStream" /\ pc = "streaming"
    /\ pc' = "thrown"
    /\ thrown' = StrVal(extractErrorMessage(e))
    /\ viaExtract' = TRUE
    /\ UNCHANGED <<fn, args, requests, fullText, chunksIn, onUpdateLog>>
    /\ UNCHANGED <<sessionVars, errorVars, parseVars>>

\* ---- continueConversationStream ----
\* lines 145-182
ContinueCall ==
    /\ fn = "continueConversationStream" /\ pc = "called"
    /\ IF ~apiKey
       THEN /\ pc' = "thrown"
            /\ thrown' = StrVal(ContinueKeyError)
            /\ UNCHANGED <<requests, viaExtract>>
       ELSE /\ requests' = Append(requests,
                   BuildContents(args.history, args.newMessage, args.initialContextParts))
            /\ pc' = "streaming"
            /\ UNCHANGED <<thrown, viaExtract>>
    /\ UNCHANGED <<fn, args, fullText, chunksIn, onUpdateLog>>
    /\ UNCHANGED <<sessionVars, errorVars, parseVars>>

\* faulty variant: onUpdate only fires for chunks that carry text
ContinueChunkSkipsEmpty(c) ==
    /\ fn = "continueConversationStream" /\ pc = "streaming"
    /\ Len(chunksIn) < MaxStreamChunks
    /\ chunksIn' = Append(chunksIn, c)
    /\ fullText' = AppendChunkText(fullText, c)
    /\ onUpdateLog' = IF TruthyString(c) THEN Append(onUpdateLog, fullText')
                      ELSE onUpdateLog
    /\ UNCHANGED <<fn, args, pc, requests, thrown, viaExtract>>
    /\ UNCHANGED <<sessionVars, errorVars, parseVars>>

\* lines 186-190
ContinueChunk(c) ==
    /\ fn = "continueConversationStream" /\ pc = "streaming"
    /\ Len(chunksIn) < MaxStreamChunks
    /\ chunksIn' = Append(chunksIn, c)
    /\ fullText' = AppendChunkText(fullText, c)
    /\ onUpdateLog' = Append(onUpdateLog, fullText')
    /\ UNCHANGED <<fn, args, pc, requests, thrown, viaExtract>>
    /\ UNCHANGED <<sessionVars, errorVars, parseVars>>

ContinueReturn ==
    /\ fn = "continueConversationStream" /\ pc = "streaming"
    /\ pc' = "returned"
    /\ UNCHANGED <<fn, args, requests, fullText, chunksIn, onUpdateLog, thrown, viaExtract>>
    /\ UNCHANGED <<sessionVars, errorVars, parseVars>>

\* lines 192-195
ContinueCatch(e) ==
    /\ fn = "continueConversationStream" /\ pc = "streaming"
    /\ pc' = "thrown"
    /\ thrown' = StrVal(extractErrorMessage(e))
    /\ viaExtract' = TRUE
    /\ UNCHANGED <<fn, args, requests, fullText, chunksIn, onUpdateLog>>
    /\ UNCHANGED <<sessionVars, errorVars, parseVars>>


InitSession ==
    /\ isLoading = FALSE /\ isStreaming = FALSE
    /\ result = Null /\ error = Null
    /\ chatHistory = << >> /\ initialContextParts = << >>
    /\ calls = << >>

IdleStream ==
    /\ fn = "none" /\ args = NoArgs /\ pc = "idle" /\ requests = << >>
    /\ fullText = << >> /\ chunksIn = << >> /\ onUpdateLog = << >>
    /\ thrown = NoThrow /\ viaExtract = FALSE

IdleError == errIn = Null /\ errOut = Null
IdleSources ==
    /\ accumulatedGrounding = [groundingChunks |-> << >>, webSearchQueries |-> Absent]
    /\ groundingMetadata = Undefined /\ uniqueSources = Null
IdleParse == rawMarkdown = << >> /\ cut = 0 /\ sections = << >> /\ IdleSources

InitStream ==
    /\ apiKey \in BOOLEAN
    /\ InitSession /\ IdleError /\ IdleParse
    /\ \/ fn = "analyzeContentStream" /\ args \in AnalyzeArgs
       \/ fn = "continueConversationStream" /\ args \in ContinueArgs
    /\ pc = "called" /\ requests = << >>
    /\ fullText = << >> /\ chunksIn = << >> /\ onUpdateLog = << >>
    /\ thrown = NoThrow /\ viaExtract = FALSE

NextStream ==
    \/ AnalyzeCall
    \/ \E c \in ChunkTexts : AnalyzeChunk(c)
    \/ AnalyzeReturn
    \/ \E e \in StreamErrors : AnalyzeCatch(e)
    \/ ContinueCall
    \/ \E c \in ChunkTexts : ContinueChunk(c)
    \/ ContinueReturn
    \/ \E e \in StreamErrors : ContinueCatch(e)

SpecStream == InitStream /\ [][NextStream]_vars

-----------------------------------------------------------------------------
(* extractErrorMessage on its own *)

InitError ==
    /\ apiKey = TRUE /\ InitSession /\ IdleStream /\ IdleParse
    /\ errIn \in ErrorObjects /\ errOut = Null

\* throw new Error(extractErrorMessage(error))
Synthesize ==
    /\ errOut = Null
    /\ errOut' = StrVal(extractErrorMessage(errIn))
    /\ UNCHANGED <<errIn, sessionVars, streamVars, parseVars>>

NextError == Synthesize

SpecError == InitError /\ [][NextError]_vars

-----------------------------------------------------------------------------
(* Claims about the service calls (SpecStream) and about extractErrorMessage *)
(* (SpecError)                                                               *)

IsContinue == fn = "continueConversationStream"
IsAnalyze == fn = "analyzeContentStream"
Issued == requests # << >>

\* C3 as stated: the continuation request is one user turn holding exactly
\* originalParts, then one turn per prior message (same role, one text part,
\* same order), then one final user turn holding newText, and nothing else.
C3_RequestAlwaysOpensWithParts ==
    (IsContinue /\ Issued) =>
        LET contents == requests[1]
            h == args.history
        IN  /\ Len(contents) = Len(h) + 2
            /\ contents[1] = Turn("user", args.initialContextParts)
            /\ \A i \in 1..Len(h) :
                   contents[i + 1] = Turn(h[i].role, <<TextPart(h[i].text)>>)
            /\ contents[Len(contents)] = Turn("user", <<TextPart(args.newMessage)>>)

\* C3 amended: the opening user turn holding originalParts is present exactly
\* when originalParts is non-empty; it is followed by one turn per prior
\* message (same role, one text part, same order) and one final user turn
\* holding newText, and nothing else.
C3_RequestShape ==
    (IsContinue /\ Issued) =>
        LET contents == requests[1]
            h == args.history
            k == IF args.initialContextParts # << >> THEN 1 ELSE 0
        IN  /\ Len(contents) = k + Len(h) + 1
            /\ k = 1 => contents[1] = Turn("user", args.initialContextParts)
            /\ \A i \in 1..Len(h) :
                   contents[k + i] = Turn(h[i].role, <<TextPart(h[i].text)>>)
            /\ contents[Len(contents)] = Turn("user", <<TextPart(args.newMessage)>>)

C3_Witness ==
    /\ IsContinue /\ Issued
    /\ args.initialContextParts = << >>
    /\ Len(args.history) = 2
    /\ args.history[1].role # args.history[2].role

\* the text delta a chunk carries
DeltaOf(c) == IF c.t = "string" THEN c.s ELSE << >>
RECURSIVE ConcatDeltas(_)
ConcatDeltas(cs) ==
    IF cs = << >> THEN << >> ELSE ConcatDeltas(SubSeq(cs, 1, Len(cs) - 1)) \o DeltaOf(cs[Len(cs)])
IsPrefix(p, t) == Len(p) <= Len(t) /\ SubSeq(t, 1, Len(p)) = p

\* C4: in both streaming calls onUpdate has fired exactly once per chunk
\* consumed (chunks without text included), the k-th invocation carried the
\* concatenation of the deltas of chunks 1..k, and each delivered text has the
\* one before it as a prefix.
C4_OneUpdatePerChunk ==
    /\ Len(onUpdateLog) = Len(chunksIn)
    /\ \A k \in 1..Len(onUpdateLog) :
           onUpdateLog[k] = ConcatDeltas(SubSeq(chunksIn, 1, k))
    /\ \A k \in 2..Len(onUpdateLog) : IsPrefix(onUpdateLog[k - 1], onUpdateLog[k])

C4_Witness ==
    /\ IsContinue /\ pc = "returned"
    /\ Len(chunksIn) = 3
    /\ chunksIn[1].t = "string" /\ chunksIn[2] = Absent /\ chunksIn[3].t = "string"

\* C7: extractErrorMessage never returns exactly "[object Object]" or "{}",
\* whatever fields the error carries, and for the error {} it returns the
\* fixed fallback message.
EmptyObjectError ==
    [kind |-> "object", message |-> Absent, errMessage |-> Absent, respMessage |-> Absent,
     statusText |-> Absent, extra |-> "none", str |-> << >>]

C7_NeverObjectArtifact ==
    errOut # Null =>
        /\ errOut.s # <<OO>>
        /\ errOut.s # <<"{}">>
        /\ errIn = EmptyObjectError => errOut.s = <<"An unknown system error occurred.">>

C7_Witness ==
    /\ errOut # Null
    /\ errIn.kind = "object"
    /\ errIn.message = StrVal(<<OO>>)
    /\ errIn.statusText = StrVal(<<"{}">>)

IsInline(part) == "inlineData" \in DOMAIN part
IsText(part) == "text" \in DOMAIN part

\* C8: the parts of the analysis request are never empty; the image part (if
\* emitted) comes first, the audio part (if emitted) next, the text part last
\* when the text is non-empty; the fallback text part is the whole sequence
\* when nothing else was emitted and is absent otherwise.
C8_PartsOrder ==
    (IsAnalyze /\ Issued) =>
        LET parts == requests[1][1].parts
            image == TruthyString(args.base64Image) /\ TruthyString(args.imageMimeType)
            audio == TruthyString(args.base64Audio) /\ TruthyString(args.audioMimeType)
            nMedia == (IF image THEN 1 ELSE 0) + (IF audio THEN 1 ELSE 0)
            hasText == args.textInput # << >>
        IN  /\ Len(parts) >= 1
            /\ \A i \in 1..Len(parts) : IsInline(parts[i]) <=> i <= nMedia
            /\ image => parts[1].inlineData.mimeType = args.imageMimeType
            /\ audio => parts[nMedia].inlineData.mimeType = args.audioMimeType
            /\ hasText => /\ Len(parts) = nMedia + 1
                          /\ parts[Len(parts)] = TextPart(args.textInput)
            /\ (~hasText /\ nMedia > 0) => Len(parts) = nMedia
            /\ (~hasText /\ nMedia = 0) => parts = <<TextPart(ServiceFallbackPrompt)>>
            /\ (\E i \in 1..Len(parts) : parts[i] = TextPart(ServiceFallbackPrompt))
                   => Len(parts) = 1

C8_Witness ==
    /\ IsAnalyze /\ Issued
    /\ Len(requests[1][1].parts) = 3
    /\ IsInline(requests[1][1].parts[2])

\* C9: without the credential both calls reject before a request is issued
\* and before onUpdate fires, with their own configuration message, raised
\* outside the catch block that synthesizes transport messages.
C9_FailFastWithoutKey ==
    (~apiKey /\ pc \notin {"idle", "called"}) =>
        /\ pc = "thrown"
        /\ requests = << >>
        /\ onUpdateLog = << >> /\ chunksIn = << >>
        /\ ~viaExtract
        /\ thrown = StrVal(IF IsAnalyze THEN AnalyzeKeyError ELSE ContinueKeyError)

C9_Witness == ~apiKey /\ pc = "thrown" /\ IsAnalyze

\* the fixed messages extractErrorMessage can substitute (lines 10, 25, 27, 38)
FallbackMessages ==
    { <<"An unknown error occurred.">>, <<"An unknown system error occurred.">>,
      <<"Non-serializable error.">>,
      <<"Critical Error: The server returned an invalid response format.">> }
NoGenuineMessage(e) ==
    /\ e.kind \in {"object", "null", "undefined"}
    /\ ~TruthyString(e.respMessage)
    /\ ~TruthyString(e.errMessage)
    /\ ~TruthyString(e.message)
\* the most deeply nested message field that is a non-empty string
DeepestMessage(e) ==
    IF TruthyString(e.respMessage) THEN e.respMessage.s
    ELSE IF TruthyString(e.errMessage) THEN e.errMessage.s
    ELSE e.message.s

\* C21 as stated: for an error value (object, null or undefined) none of
\* whose message fields is a non-empty string the synthesized message is a
\* fixed fallback message (or the status-text message), never a
\* serialization of the error; and when message fields are non-empty strings
\* free of the object artifact, the most deeply nested one is returned.
C21_FallbackWhenNoMessageField ==
    errOut # Null =>
        /\ NoGenuineMessage(errIn) =>
              \/ errOut.s \in FallbackMessages
              \/ Head(errOut.s) = "API Error: "
        /\ ( /\ errIn.kind = "object"
             /\ ~NoGenuineMessage(errIn)
             /\ ~IncludesOO(DeepestMessage(errIn))
             /\ DeepestMessage(errIn) # EmptyObjectMarker )
           => errOut.s = DeepestMessage(errIn)

-----------------------------------------------------------------------------
(* The section parser (AnalysisDisplay.tsx 84-133), on one-character tokens *)

MaxMarkdownLen == 5

Whitespace == {" ", "\n", "\t"}
\* \w
WordChars ==
    {"a", "b", "c", "d", "e", "f", "g", "h", "i", "j", "k", "l", "m", "n", "o", "p",
     "q", "r", "s", "t", "u", "v", "w", "x", "y", "z", "A", "B", "C", "D", "E", "F",
     "G", "H", "I", "J", "K", "L", "M", "N", "O", "P", "Q", "R", "S", "T", "U", "V",
     "W", "X", "Y", "Z", "0", "1", "2", "3", "4", "5", "6", "7", "8", "9", "_"}

StartsWith(line, prefix) ==
    Len(line) >= Len(prefix) /\ SubSeq(line, 1, Len(prefix)) = prefix

\* String.prototype.includes on character sequences
Includes(t, k) ==
    \E i \in 0..(Len(t) - Len(k)) : SubSeq(t, i + 1, i + Len(k)) = k

\* the leading run of characters of s that lie in S, removed
RECURSIVE DropLeading(_, _)
DropLeading(s, S) ==
    IF s # << >> /\ Head(s) \in S THEN DropLeading(Tail(s), S) ELSE s

\* the leading run of characters of s that lie outside S, removed
RECURSIVE DropLeadingNot(_, _)
DropLeadingNot(s, S) ==
    IF s # << >> /\ Head(s) \notin S THEN DropLeadingNot(Tail(s), S) ELSE s

RECURSIVE DropTrailing(_, _)
DropTrailing(s, S) ==
    IF s # << >> /\ s[Len(s)] \in S THEN DropTrailing(SubSeq(s, 1, Len(s) - 1), S) ELSE s

\* String.prototype.trim
Trim(s) == DropTrailing(DropLeading(s, Whitespace), Whitespace)

\* rawMarkdown.split('\n')
RECURSIVE SplitLines(_)
SplitLines(s) ==
    IF \E i \in 1..Len(s) : s[i] = "\n"
    THEN LET i == CHOOSE i \in 1..Len(s) :
                      s[i] = "\n" /\ \A j \in 1..(i - 1) : s[j] # "\n"
         IN  <<SubSeq(s, 1, i - 1)>> \o SplitLines(SubSeq(s, i + 1, Len(s)))
    ELSE <<s>>

\* currentContent.join('\n')
RECURSIVE JoinLines(_)
JoinLines(lines) ==
    IF lines = << >> THEN << >>
    ELSE IF Len(lines) = 1 THEN lines[1]
    ELSE lines[1] \o <<"\n">> \o JoinLines(Tail(lines))

KeyGlobalSightAnalysis ==
    <<"G", "l", "o", "b", "a", "l", "S", "i", "g", "h", "t", " ", "A", "n",
    "a", "l", "y", "s", "i", "s">>
KeyProblemDetected ==
    <<"P", "r", "o", "b", "l", "e", "m", " ", "D", "e", "t", "e", "c", "t",
    "e", "d">>
KeyRootCause ==
    <<"R", "o", "o", "t", " ", "C", "a", "u", "s", "e">>
KeyPredictedImpact ==
    <<"P", "r", "e", "d", "i", "c", "t", "e", "d", " ", "I", "m", "p", "a",
    "c", "t">>
KeyActionableSolutions ==
    <<"A", "c", "t", "i", "o", "n", "a", "b", "l", "e", " ", "S", "o", "l",
    "u", "t", "i", "o", "n", "s">>
KeySimulationModel ==
    <<"S", "i", "m", "u", "l", "a", "t", "i", "o", "n", " ", "M", "o", "d",
    "e", "l">>
KeyAutoGeneratedCode ==
    <<"A", "u", "t", "o", "-", "G", "e", "n", "e", "r", "a", "t", "e", "d",
    " ", "C", "o", "d", "e">>
KeySummarySnapshot ==
    <<"S", "u", "m", "m", "a", "r", "y", " ", "S", "n", "a", "p", "s", "h",
    "o", "t">>

\* lines 92-101, in declaration order
sectionConfig ==
    <<[key |-> KeyGlobalSightAnalysis, icon |-> "fa-globe", type |-> "header", theme |-> "neutral"],
      [key |-> KeyProblemDetected, icon |-> "fa-triangle-exclamation", type |-> "list", theme |-> "danger"],
      [key |-> KeyRootCause, icon |-> "fa-dna", type |-> "text", theme |-> "info"],
      [key |-> KeyPredictedImpact, icon |-> "fa-chart-line", type |-> "impact", theme |-> "warning"],
      [key |-> KeyActionableSolutions, icon |-> "fa-leaf", type |-> "list", theme |-> "success"],
      [key |-> KeySimulationModel, icon |-> "fa-flask", type |-> "text", theme |-> "life"],
      [key |-> KeyAutoGeneratedCode, icon |-> "fa-code", type |-> "code", theme |-> "neutral"],
      [key |-> KeySummarySnapshot, icon |-> "fa-clipboard-check", type |-> "table", theme |-> "success"]>>

DefaultConfig == [icon |-> "fa-circle-info", type |-> "text", theme |-> "neutral"]

\* faulty variant: the last key of the table that matches is taken
ConfigForLastKey(cleanTitle) ==
    IF \E i \in 1..Len(sectionConfig) : Includes(cleanTitle, sectionConfig[i].key)
    THEN LET i == CHOOSE i \in 1..Len(sectionConfig) :
                      /\ Includes(cleanTitle, sectionConfig[i].key)
                      /\ \A j \in (i + 1)..Len(sectionConfig) :
                            ~Includes(cleanTitle, sectionConfig[j].key)
         IN  [icon |-> sectionConfig[i].icon, type |-> sectionConfig[i].type,
              theme |-> sectionConfig[i].theme]
    ELSE DefaultConfig

\* lines 108-109: Object.keys(sectionConfig).find(k => cleanTitle.includes(k))
ConfigFor(cleanTitle) ==
    IF \E i \in 1..Len(sectionConfig) : Includes(cleanTitle, sectionConfig[i].key)
    THEN LET i == CHOOSE i \in 1..Len(sectionConfig) :
                      /\ Includes(cleanTitle, sectionConfig[i].key)
                      /\ \A j \in 1..(i - 1) : ~Includes(cleanTitle, sectionConfig[j].key)
         IN  [icon |-> sectionConfig[i].icon, type |-> sectionConfig[i].type,
              theme |-> sectionConfig[i].theme]
    ELSE DefaultConfig

\* lines 105-106: replace(/^[#\s]+/, '').trim(), then replace(/^[^\w\s]+\s*/, '')
CleanTitle(currentTitle) ==
    LET a == Trim(DropLeading(currentTitle, {"#"} \cup Whitespace))
        b == DropLeadingNot(a, WordChars \cup Whitespace)
    IN  IF b # a THEN DropLeading(b, Whitespace) ELSE a

\* the parser's locals: parsed, currentTitle, currentContent (lines 88-90)
ParserStart == [parsed |-> << >>, currentTitle |-> << >>, currentContent |-> << >>]

\* faulty variant: the section is put in front of the parsed ones
flushSectionInFront(st) ==
    [st EXCEPT
       !.parsed =
           IF st.currentTitle # << >>
           THEN LET cleanTitle == CleanTitle(st.currentTitle)
                    config == ConfigFor(cleanTitle)
                IN  <<[title |-> cleanTitle, icon |-> config.icon,
                       content |-> Trim(JoinLines(st.currentContent)),
                       type |-> config.type, theme |-> config.theme]>> \o @
           ELSE @,
       !.currentContent = << >>]

\* lines 103-120
flushSection(st) ==
    [st EXCEPT
       !.parsed =
           IF st.currentTitle # << >>
           THEN LET cleanTitle == CleanTitle(st.currentTitle)
                    config == ConfigFor(cleanTitle)
                IN  Append(@, [title |-> cleanTitle, icon |-> config.icon,
                               content |-> Trim(JoinLines(st.currentContent)),
                               type |-> config.type, theme |-> config.theme])
           ELSE @,
       !.currentContent = << >>]

IsBoundary(line) == StartsWith(line, <<"#", "#", " ">>) \/ StartsWith(line, <<"#", " ">>)

\* faulty variant: a heading replaces the open title without flushing it
ScanLineNoFlush(st, line) ==
    IF IsBoundary(line)
    THEN [st EXCEPT !.currentTitle = line, !.currentContent = << >>]
    ELSE [st EXCEPT !.currentContent = Append(@, line)]

\* lines 123-128: the body of the line loop
ScanLine(st, line) ==
    IF IsBoundary(line)
    THEN [flushSection(st) EXCEPT !.currentTitle = line]
    ELSE [st EXCEPT !.currentContent = Append(@, line)]

RECURSIVE ScanLines(_, _)
ScanLines(st, lines) ==
    IF lines = << >> THEN st ELSE ScanLines(ScanLine(st, Head(lines)), Tail(lines))

\* faulty variant: the flush after the line loop (line 130) is left out
ParseNoFinalFlush(markdown) ==
    IF markdown = << >> THEN << >>
    ELSE ScanLines(ParserStart, SplitLines(markdown)).parsed

\* lines 84-133
Parse(markdown) ==
    IF markdown = << >> THEN << >>
    ELSE flushSection(ScanLines(ParserStart, SplitLines(markdown))).parsed

\* ---- inputs ----
\* "*" and the <...> tokens are characters outside \w and \s (emoji)
Alphabet == {"#", " ", "\n", "a", "*"}
ExampleDelta1 ==
    <<"#", "#", " ", "<lens>", " ", "P", "r", "o", "b", "l", "e", "m", " ",
    "D", "e", "t", "e", "c", "t", "e", "d", "\n", "-", " ", "p", "o", "l",
    "l", "u", "t", "i", "o", "n", "\n">>
ExampleDelta2 ==
    <<"#", "#", " ", "<brain>", " ", "R", "o", "o", "t", " ", "C", "a", "u",
    "s", "e", "\n", "c", "o", "n", "t", "a", "m", "i", "n", "a", "t", "i",
    "o", "n", "\n">>
ExampleText == ExampleDelta1 \o ExampleDelta2
\* text before the first heading, a level-3 heading inside a section, and an
\* open last section without a final newline
ExampleOutline ==
    <<"a", "\n", "#", " ", "a", "\n", "#", "#", "#", " ", "a", "\n", "a",
    "\n", "#", "#", " ", "*", "\n", "a", "a">>
\* a heading that contains two keys of the table, the later-declared one first
ExampleTwoKeys == <<"#", " ">> \o KeyRootCause \o <<" ">> \o KeyProblemDetected
Markdowns ==
    SeqsUpTo(Alphabet, MaxMarkdownLen) \cup {ExampleText, ExampleOutline, ExampleTwoKeys}

Prefix(s, n) == SubSeq(s, 1, n)

InitParse ==
    /\ apiKey = TRUE /\ InitSession /\ IdleStream /\ IdleError
    /\ rawMarkdown \in Markdowns
    /\ cut = 0
    /\ sections = Parse(<< >>)
    /\ IdleSources

\* one streamed update: the displayed text grows by n characters and the
\* sections are recomputed from scratch (useMemo on rawMarkdown)
Grow(n) ==
    /\ cut + n <= Len(rawMarkdown)
    /\ cut' = cut + n
    /\ sections' = Parse(Prefix(rawMarkdown, cut'))
    /\ UNCHANGED <<rawMarkdown, accumulatedGrounding, groundingMetadata, uniqueSources>>
    /\ UNCHANGED <<sessionVars, streamVars, errorVars>>

NextParse == \E n \in 1..Len(rawMarkdown) : Grow(n)

SpecParse == InitParse /\ [][NextParse]_vars

(* Claims about the parser (SpecParse) *)

Titles(secs) == { secs[i].title : i \in 1..Len(secs) }
LastLine(s) == LET lines == SplitLines(s) IN lines[Len(lines)]
\* the prefix shown ends inside a heading line of the complete text
CutInsideHeading ==
    /\ cut < Len(rawMarkdown)
    /\ rawMarkdown[cut + 1] # "\n"
    /\ IsBoundary(LastLine(Prefix(rawMarkdown, cut)))

\* C5 as stated: every section title of the parse of a prefix (cut anywhere)
\* is a section title of the parse of the complete text.
C5_TitlesNeverRemoved == Titles(sections) \subseteq Titles(Parse(rawMarkdown))

\* C5 amended: every section title of the parse of a prefix is a section title
\* of the parse of the complete text, except that the title of the prefix's
\* last section may differ when the prefix ends inside that heading line.
C5_TitlesKeptUpToOpenHeading ==
    \A i \in 1..Len(sections) :
        (i < Len(sections) \/ ~CutInsideHeading)
            => sections[i].title \in Titles(Parse(rawMarkdown))

C5_Witness ==
    /\ rawMarkdown = ExampleText
    /\ cut = Len(ExampleDelta1) + 8
    /\ Len(sections) = 2
    /\ sections[2].title # KeyRootCause

\* the lines of the text shown so far
ShownLines == SplitLines(Prefix(rawMarkdown, cut))
\* a line that starts with "# " or with "## "
BoundaryLine(line) ==
    /\ Len(line) >= 2 /\ line[1] = "#"
    /\ \/ line[2] = " "
       \/ Len(line) >= 3 /\ line[2] = "#" /\ line[3] = " "
Boundaries(lines) == { i \in 1..Len(lines) : BoundaryLine(lines[i]) }
\* the index of the k-th boundary line
KthBoundary(lines, k) ==
    CHOOSE i \in Boundaries(lines) :
        Cardinality({ j \in Boundaries(lines) : j <= i }) = k
\* the lines strictly after boundary i, up to the next boundary or the end
LinesOfSection(lines, i) ==
    LET later == { j \in Boundaries(lines) : j > i }
        stop == IF later = {} THEN Len(lines) + 1
                ELSE CHOOSE j \in later : \A h \in later : j <= h
    IN  SubSeq(lines, i + 1, stop - 1)

\* C19: the sections of the text shown so far are, in order, one per line
\* that starts with "# " or "## " (a line starting with "###" is none); the
\* k-th section has the title of the k-th such line and as content the
\* trimmed join of the lines after it up to the next such line or the end of
\* the text, the last one included when the text stops inside it; lines
\* before the first such line are in no section.
C19_OneSectionPerBoundaryLine ==
    LET lines == ShownLines
    IN  /\ \A i \in 1..Len(lines) :
              StartsWith(lines[i], <<"#", "#", "#">>) => i \notin Boundaries(lines)
        /\ Len(sections) = Cardinality(Boundaries(lines))
        /\ \A k \in 1..Len(sections) :
              LET i == KthBoundary(lines, k)
              IN  /\ sections[k].title = CleanTitle(lines[i])
                  /\ sections[k].content = Trim(JoinLines(LinesOfSection(lines, i)))

\* the outline example shown in full: two sections, the first holding the
\* level-3 heading line, the second open at the end of the text
C19_Witness ==
    /\ rawMarkdown = ExampleOutline /\ cut = Len(ExampleOutline)
    /\ ~BoundaryLine(ShownLines[1])
    /\ Len(sections) = 2
    /\ sections[1].content = <<"#", "#", "#", " ", "a", "\n", "a">>
    /\ sections[2].title = << >>
    /\ sections[2].content = <<"a", "a">>

\* the table entries whose key is a substring of the title
MatchingKeys(title) ==
    { i \in 1..Len(sectionConfig) : Includes(title, sectionConfig[i].key) }
Typing(s) == <<s.icon, s.type, s.theme>>

\* C20: every section has a title and a typing: the title is its heading line
\* without the leading "#"/whitespace and without one leading run of
\* non-word glyphs; icon, type and theme are those of the first key of the
\* table (in declaration order) contained in the title, and the default
\* (the info-circle icon fa-circle-info, text, neutral) when no key is
\* contained.  The two-delta example text parses to exactly the two sections
\* (Problem Detected, list, danger, "- pollution") and (Root Cause, text,
\* info, "contamination").
C20_TypingIsFirstMatchingKey ==
    /\ \A k \in 1..Len(sections) :
          LET s == sections[k]
              line == ShownLines[KthBoundary(ShownLines, k)]
              body == DropLeading(line, {"#"} \cup Whitespace)
          IN  /\ s.title = CleanTitle(line)
              /\ \/ s.title = Trim(body)
                 \/ /\ body # << >> /\ Head(body) \notin WordChars
                    /\ s.title = Trim(DropLeadingNot(body, WordChars \cup Whitespace))
              /\ IF MatchingKeys(s.title) = {}
                 THEN Typing(s) = <<"fa-circle-info", "text", "neutral">>
                 ELSE LET i == CHOOSE i \in MatchingKeys(s.title) :
                                   \A j \in MatchingKeys(s.title) : i <= j
                      IN  Typing(s) = <<sectionConfig[i].icon, sectionConfig[i].type,
                                        sectionConfig[i].theme>>
    /\ (rawMarkdown = ExampleText /\ cut = Len(ExampleText)) =>
          sections =
             <<[title |-> KeyProblemDetected, icon |-> "fa-triangle-exclamation",
                content |-> <<"-", " ", "p", "o", "l", "l", "u", "t", "i", "o", "n">>,
                type |-> "list", theme |-> "danger"],
               [title |-> KeyRootCause, icon |-> "fa-dna",
                content |-> <<"c", "o", "n", "t", "a", "m", "i", "n", "a", "t", "i", "o", "n">>,
                type |-> "text", theme |-> "info"]>>

\* the example text after its second delta: two typed sections
C20_Witness ==
    /\ rawMarkdown = ExampleText /\ cut = Len(ExampleText)
    /\ Len(sections) = 2
    /\ sections[1].type = "list" /\ sections[1].theme = "danger"
    /\ sections[2].type = "text" /\ sections[2].theme = "info"

\* C30: the parse of the complete text has at least as many sections as the
\* parse of any prefix of it, and every section of the prefix's parse but
\* its last is, with the same title, icon, type, theme and content, at the
\* same index of the parse of the complete text.
C30_ReparseStableExceptTail ==
    LET whole == Parse(rawMarkdown)
    IN  /\ Len(whole) >= Len(sections)
        /\ \A k \in 1..(Len(sections) - 1) : whole[k] = sections[k]

\* the example text cut inside its second heading: the first section is
\* final, the second still differs from the one of the complete text
C30_Witness ==
    /\ rawMarkdown = ExampleText
    /\ cut \in (Len(ExampleDelta1) + 1)..(Len(ExampleText) - 1)
    /\ Len(sections) = 2
    /\ sections[1] = Parse(rawMarkdown)[1]
    /\ sections[2] # Parse(rawMarkdown)[2]

-----------------------------------------------------------------------------
(* The source list (AnalysisDisplay.tsx 321-328) over the grounding chunks   *)
(* the analysis stream accumulates (geminiService.ts 112-131).               *)

MaxGroundingChunks == 4

\* a grounding chunk: web is { uri, title } or missing
WebSource(uri, title) == [uri |-> uri, title |-> title]
Uris == {"a", "b"}
SourceTitles == {"t1", "t2"}
GroundingChunks ==
    { [web |-> WebSource(u, t)] : u \in Uris, t \in SourceTitles } \cup { [web |-> Absent] }

\* .map(chunk => chunk.web).filter(web => !!web), lines 324-326
RECURSIVE WebSources(_)
WebSources(chunks) ==
    IF chunks = << >> THEN << >>
    ELSE (IF Head(chunks).web = Absent THEN << >> ELSE <<Head(chunks).web>>)
         \o WebSources(Tail(chunks))

\* faulty variant: a key already present keeps its first value
MapSetKeepsFirst(entries, key, value) ==
    IF \E i \in 1..Len(entries) : entries[i][1] = key
    THEN entries
    ELSE Append(entries, <<key, value>>)

\* Map.prototype.set: a key already present keeps its position and takes the
\* new value, a new key is added at the end
MapSet(entries, key, value) ==
    IF \E i \in 1..Len(entries) : entries[i][1] = key
    THEN [i \in 1..Len(entries) |->
             IF entries[i][1] = key THEN <<key, value>> ELSE entries[i]]
    ELSE Append(entries, <<key, value>>)

\* new Map(sources.map(item => [item.uri, item])), line 327
RECURSIVE NewMap(_, _)
NewMap(entries, sources) ==
    IF sources = << >> THEN entries
    ELSE NewMap(MapSet(entries, Head(sources).uri, Head(sources)), Tail(sources))

\* Array.from(map.values())
MapValues(entries) == [i \in 1..Len(entries) |-> entries[i][2]]

\* lines 321-328: null when nothing is to be shown, else the entries mapped
\* over in line 341
renderGrounding(metadata) ==
    IF metadata = Undefined \/ Len(metadata.groundingChunks) = 0 THEN Null
    ELSE LET sources == WebSources(metadata.groundingChunks)
             unique == MapValues(NewMap(<< >>, sources))
         IN  IF Len(unique) = 0 THEN Null ELSE [entries |-> unique]

GroundingBatches == SeqsUpTo(GroundingChunks, 2)
SearchQueries == { <<"q1">>, <<"q2">>, <<"q1", "q2">> }
\* chunk.candidates?.[0]?.groundingMetadata of one provider chunk: missing, or
\* an object in which groundingChunks and webSearchQueries may each be missing
ChunkMetadatas ==
    {Absent} \cup
    { [groundingChunks |-> g, webSearchQueries |-> w] :
         g \in {Absent} \cup { [list |-> b] : b \in GroundingBatches },
         w \in {Absent} \cup { [list |-> q] : q \in SearchQueries } }

\* faulty variant: the chunks of the provider chunk replace the accumulated ones
AccumulateReplacing(acc, chunkMetadata) ==
    IF chunkMetadata = Absent THEN acc
    ELSE [groundingChunks |->
              IF chunkMetadata.groundingChunks = Absent THEN acc.groundingChunks
              ELSE chunkMetadata.groundingChunks.list,
          webSearchQueries |->
              IF chunkMetadata.webSearchQueries = Absent THEN acc.webSearchQueries
              ELSE chunkMetadata.webSearchQueries]

\* geminiService.ts 121-129
Accumulate(acc, chunkMetadata) ==
    IF chunkMetadata = Absent THEN acc
    ELSE [groundingChunks |->
              IF chunkMetadata.groundingChunks = Absent THEN acc.groundingChunks
              ELSE acc.groundingChunks \o chunkMetadata.groundingChunks.list,
          webSearchQueries |->
              IF chunkMetadata.webSearchQueries = Absent THEN acc.webSearchQueries
              ELSE chunkMetadata.webSearchQueries]

\* faulty variant: an update that brings nothing new clears the stored value
MergeGroundingDropsUnchanged(streamedMetadata, prev) ==
    IF streamedMetadata # prev THEN streamedMetadata ELSE Undefined

\* part_000 45: streamedMetadata || prev?.groundingMetadata
MergeGrounding(streamedMetadata, prev) ==
    IF streamedMetadata # Undefined THEN streamedMetadata ELSE prev

\* line 112 of the service; line 23 of the App
InitSources ==
    /\ apiKey = TRUE /\ InitSession /\ IdleStream /\ IdleError
    /\ rawMarkdown = << >> /\ cut = 0 /\ sections = << >>
    /\ accumulatedGrounding = [groundingChunks |-> << >>, webSearchQueries |-> Absent]
    /\ groundingMetadata = Undefined
    /\ uniqueSources = renderGrounding(Undefined)

\* one update of the analysis stream: the metadata of the provider chunk is
\* accumulated (geminiService.ts 121-129), onUpdate is called with the
\* accumulator (131), the result takes it (part_000 45) and the display
\* renders it
GroundingUpdate(chunkMetadata) ==
    /\ accumulatedGrounding' = Accumulate(accumulatedGrounding, chunkMetadata)
    /\ Len(accumulatedGrounding'.groundingChunks) <= MaxGroundingChunks
    /\ groundingMetadata' = MergeGrounding(accumulatedGrounding', groundingMetadata)
    /\ uniqueSources' = renderGrounding(groundingMetadata')
    /\ UNCHANGED <<rawMarkdown, cut, sections>>
    /\ UNCHANGED <<sessionVars, streamVars, errorVars>>

NextSources == \E chunkMetadata \in ChunkMetadatas : GroundingUpdate(chunkMetadata)

SpecSources == InitSources /\ [][NextSources]_vars

(* Claims about the source list (SpecSources) *)

AccumulatedSources ==
    IF groundingMetadata = Undefined THEN << >>
    ELSE WebSources(groundingMetadata.groundingChunks)
FirstIndexOf(sources, uri) ==
    CHOOSE i \in 1..Len(sources) :
        sources[i].uri = uri /\ \A j \in 1..(i - 1) : sources[j].uri # uri
LastIndexOf(sources, uri) ==
    CHOOSE i \in 1..Len(sources) :
        sources[i].uri = uri /\ \A j \in (i + 1)..Len(sources) : sources[j].uri # uri

\* C12: the list shown has exactly one entry per distinct URI of the
\* accumulated web sources (nothing is shown when there is none); the entry of
\* a URI is the last accumulated source with that URI; the entries are in the
\* order in which their URIs first appeared.
C12_SourcesDedupedByUri ==
    LET sources == AccumulatedSources
        uris == { sources[i].uri : i \in 1..Len(sources) }
    IN  IF uris = {} THEN uniqueSources = Null
        ELSE /\ uniqueSources # Null
             /\ LET shown == uniqueSources.entries
                IN  /\ Len(shown) = Cardinality(uris)
                    /\ { shown[k].uri : k \in 1..Len(shown) } = uris
                    /\ \A k \in 1..Len(shown) :
                          shown[k] = sources[LastIndexOf(sources, shown[k].uri)]
                    /\ \A j, k \in 1..Len(shown) :
                          j < k => FirstIndexOf(sources, shown[j].uri)
                                     < FirstIndexOf(sources, shown[k].uri)

\* sources a, b, a: two entries, a first and with the later title
C12_Witness ==
    /\ groundingMetadata # Undefined
    /\ groundingMetadata.groundingChunks =
          << [web |-> WebSource("a", "t1")], [web |-> WebSource("b", "t1")],
             [web |-> WebSource("a", "t2")] >>
    /\ uniqueSources = [entries |-> << WebSource("a", "t2"), WebSource("b", "t1") >>]

\* C22: with every update of one analysis call the delivered chunk list is
\* the previously delivered list followed by the chunks the provider chunk
\* supplied (nothing removed, nothing replaced, duplicates kept), and the
\* delivered web-search queries are those of the provider chunk when it
\* supplies some and the previous ones otherwise.
C22_AccumulatorAppendOnly ==
    [][\A m \in ChunkMetadatas :
          GroundingUpdate(m) =>
             LET before == accumulatedGrounding
                 delivered == groundingMetadata'
                 supplied == IF m = Absent \/ m.groundingChunks = Absent THEN << >>
                             ELSE m.groundingChunks.list
             IN  /\ delivered # Undefined
                 /\ groundingMetadata # Undefined => groundingMetadata = before
                 /\ IsPrefix(before.groundingChunks, delivered.groundingChunks)
                 /\ delivered.groundingChunks = before.groundingChunks \o supplied
                 /\ delivered.webSearchQueries =
                       IF m # Absent /\ m.webSearchQueries # Absent
                       THEN m.webSearchQueries
                       ELSE before.webSearchQueries]_vars

\* a chunk delivered twice is held twice, and the queries have been set
C22_Witness ==
    /\ groundingMetadata # Undefined
    /\ groundingMetadata.groundingChunks =
          << [web |-> WebSource("a", "t1")], [web |-> WebSource("a", "t1")],
             [web |-> Absent] >>
    /\ groundingMetadata.webSearchQueries = [list |-> <<"q2">>]

\* C23: once an update has set the grounding metadata of the result, no
\* later update of the analysis makes it absent, and an update changes the
\* stored value only to the value it delivers, which is present.
C23_StickyMerge ==
    [][\A m \in ChunkMetadatas :
          GroundingUpdate(m) =>
             /\ groundingMetadata # Undefined => groundingMetadata' # Undefined
             /\ groundingMetadata' # groundingMetadata =>
                   /\ accumulatedGrounding' # Undefined
                   /\ groundingMetadata' = accumulatedGrounding']_vars

\* the metadata holds three chunks, more than one update supplies: it was
\* set by one update and replaced by a later one
C23_Witness ==
    /\ groundingMetadata # Undefined
    /\ Len(groundingMetadata.groundingChunks) = 3
    /\ groundingMetadata.webSearchQueries = Absent

-----------------------------------------------------------------------------
(* The App session (unnamed/part_000 7-131).                                 *)
(* A handler runs from the state of the latest render.  calls holds one      *)
(* record per asynchronous invocation that is awaiting its stream, with the  *)
(* text the service call has accumulated (fullText); a call leaves calls     *)
(* when its stream ends or fails.  requests holds the request most recently  *)
(* handed to ai.models.generateContentStream.  The fields n, current and     *)
(* clean record the circumstances of a call or request and are read by no    *)
(* action (n, the number of chunks that carried text, only by the bound on   *)
(* the stream).  timestamp (Date.now()) is left out of ChatMessage.          *)
(*                                                                           *)
(* MaxInFlight bounds the invocations awaiting a stream, MaxChunks the       *)
(* chunks with text one stream delivers (chunks without text are not         *)
(* limited), MaxTurns the length of the chat history.                        *)

MaxInFlight == 2
MaxChunks == 1
MaxTurns == 5

LoadingThreshold == 5

\* lines 27-31: the parts kept for the follow-ups
AppFallbackPrompt == <<"Analyze world data.">>
AppMediaPart(media) ==
    IF media = Null THEN << >>
    ELSE <<InlinePart(SplitSecond(media.base64), StrVal(media.mimeType))>>
ContextParts(text, fileData, audioData) ==
    LET parts == AppMediaPart(fileData) \o AppMediaPart(audioData)
                 \o (IF text # << >> THEN <<TextPart(text)>> ELSE << >>)
    IN  IF Len(parts) = 0 THEN <<TextPart(AppFallbackPrompt)>> ELSE parts

\* lines 56-65
AnalysisErrorShown(message) ==
    IF IncludesOO(message) \/ message = EmptyObjectMarker
    THEN <<"System Error: Connection terminated unexpectedly.">>
    ELSE message

\* faulty variant: the inline error is shown without its prefix
ChatErrorTextNoPrefix(message) ==
    IF IncludesOO(message) THEN <<"Connection interrupted (Unknown Error).">> ELSE message

\* lines 114-118
ChatErrorText(message) ==
    <<"Error: ">> \o (IF IncludesOO(message)
                      THEN <<"Connection interrupted (Unknown Error).">>
                      ELSE message)

ChatMessage(role, text) == [role |-> role, text |-> text]
Placeholder == ChatMessage("model", <<"Thinking...">>)

\* faulty variant: the entry is pushed instead of written over the last one
ReplaceLastAppends(history, entry) == Append(history, entry)

\* copy[copy.length - 1] = entry; an empty array keeps length 0
ReplaceLast(history, entry) ==
    IF history = << >> THEN history
    ELSE [history EXCEPT ![Len(history)] = entry]

RemoveAt(q, i) == SubSeq(q, 1, i - 1) \o SubSeq(q, i + 1, Len(q))

\* ---- inputs ----
SessionInputs ==
    { [text |-> <<"check this river">>, fileData |-> Null, audioData |-> Null],
      [text |-> << >>,
       fileData |-> [base64 |-> <<"data:image/png;", Base64Marker, "IMG">>,
                     mimeType |-> <<"image/png">>],
       audioData |-> Null] }
UserMessages == { <<"hello">> }
AnalysisChunkTexts == { Absent, StrVal(<<"a", "b", "c">>) }
ReplyChunkTexts == { Absent, StrVal(<<"r">>) }
SessionErrors ==
    { [kind |-> "Error", message |-> StrVal(<<"Network down">>), errMessage |-> Absent,
       respMessage |-> Absent, statusText |-> Absent, extra |-> "none", str |-> << >>],
      [kind |-> "object", message |-> StrVal(<<OO>>), errMessage |-> Absent,
       respMessage |-> Absent, statusText |-> StrVal(<<OO>>), extra |-> "none",
       str |-> << >>] }

\* clean: the call was started on an empty chat history with no other stream
\* in flight, and no handler has run since.  slot: the index of the history
\* entry a follow-up call appended as its placeholder (0 for an analysis, and
\* once the history it counted in has been cleared)
NewCall(kind) ==
    [kind |-> kind, fullText |-> << >>, n |-> 0,
     current |-> TRUE,
     clean |-> chatHistory = << >> /\ calls = << >>,
     slot |-> IF kind # "chat" THEN 0
              ELSE IF Len(chatHistory) = 0 THEN 3 ELSE Len(chatHistory) + 2]

NewRequest(kind, contents) == <<[kind |-> kind, contents |-> contents, current |-> TRUE]>>

\* a handler ran: no call in flight is clean any more
Disturbed(cs) == [i \in 1..Len(cs) |-> [cs[i] EXCEPT !.clean = FALSE]]
\* a new analysis or a reset: the calls in flight belong to an earlier session
Outdated(cs) ==
    [i \in 1..Len(cs) |->
        [cs[i] EXCEPT !.clean = FALSE, !.current = FALSE, !.slot = 0]]

\* the request on record was issued in an earlier session
OutdatedRequest(rs) == [i \in 1..Len(rs) |-> [rs[i] EXCEPT !.current = FALSE]]

\* fileData?.base64, fileData?.mimeType (lines 37-41)
ServiceArgs(text, fileData, audioData) ==
    [textInput |-> text,
     base64Image |-> IF fileData = Null THEN Absent ELSE StrVal(fileData.base64),
     imageMimeType |-> IF fileData = Null THEN Absent ELSE StrVal(fileData.mimeType),
     base64Audio |-> IF audioData = Null THEN Absent ELSE StrVal(audioData.base64),
     audioMimeType |-> IF audioData = Null THEN Absent ELSE StrVal(audioData.mimeType)]

Streaming(i, kind) == i \in 1..Len(calls) /\ calls[i].kind = kind

\* lines 18-52, and 53-72 when the key is missing
handleAnalyze(text, fileData, audioData) ==
    /\ Len(calls) < MaxInFlight
    /\ result' = [text |-> << >>]
    /\ chatHistory' = << >>
    /\ initialContextParts' = ContextParts(text, fileData, audioData)
    /\ IF apiKey
       THEN /\ isLoading' = TRUE
            /\ isStreaming' = TRUE
            /\ error' = Null
            /\ calls' = Append(Outdated(calls), NewCall("analysis"))
            /\ requests' = NewRequest("analysis",
                   <<Turn("user", EncodeParts(ServiceArgs(text, fileData, audioData)))>>)
       ELSE /\ isLoading' = FALSE
            /\ isStreaming' = FALSE
            /\ error' = StrVal(AnalysisErrorShown(AnalyzeKeyError))
            /\ calls' = Outdated(calls)
            /\ requests' = OutdatedRequest(requests)
    /\ UNCHANGED <<apiKey, fn, args, pc, fullText, chunksIn, onUpdateLog, thrown, viaExtract>>
    /\ UNCHANGED <<errorVars, parseVars>>

\* lines 42-51 with geminiService.ts 114-132: one chunk of an analysis stream
AnalysisUpdate(i, c) ==
    /\ Streaming(i, "analysis")
    /\ c = Absent \/ calls[i].n < MaxChunks
    /\ LET streamedText == AppendChunkText(calls[i].fullText, c)
       IN  /\ calls' = [calls EXCEPT ![i].fullText = streamedText,
                                     ![i].n = IF c = Absent THEN @ ELSE @ + 1]
           /\ result' = [text |-> streamedText]
           /\ isLoading' = IF Len(streamedText) > LoadingThreshold THEN FALSE ELSE isLoading
    /\ UNCHANGED <<apiKey, isStreaming, error, chatHistory, initialContextParts>>
    /\ UNCHANGED <<streamVars, errorVars, parseVars>>

\* the analysis stream ends: lines 69-72
AnalysisDone(i) ==
    /\ Streaming(i, "analysis")
    /\ calls' = RemoveAt(calls, i)
    /\ isStreaming' = FALSE
    /\ isLoading' = FALSE
    /\ UNCHANGED <<apiKey, result, error, chatHistory, initialContextParts>>
    /\ UNCHANGED <<streamVars, errorVars, parseVars>>

\* the analysis stream fails: geminiService.ts 133-136, then lines 53-72
AnalysisFail(i, e) ==
    /\ Streaming(i, "analysis")
    /\ calls' = RemoveAt(calls, i)
    /\ error' = StrVal(AnalysisErrorShown(extractErrorMessage(e)))
    /\ isStreaming' = FALSE
    /\ isLoading' = FALSE
    /\ UNCHANGED <<apiKey, result, chatHistory, initialContextParts>>
    /\ UNCHANGED <<streamVars, errorVars, parseVars>>

\* faulty variant: the analysis text is put in front on every call
NewHistorySynthesizesAlways == <<ChatMessage("model", result.text)>> \o chatHistory

\* lines 80-85
NewHistory ==
    IF Len(chatHistory) = 0 THEN <<ChatMessage("model", result.text)>> ELSE chatHistory

\* faulty variant: the follow-up is processed without testing for a result
handleSendMessageNoGuard(message) ==
    /\ Len(calls) < MaxInFlight
    /\ Len(chatHistory) + 2 < MaxTurns + 1
    /\ LET analysisText == IF result = Null THEN << >> ELSE result.text
           newHistory == IF Len(chatHistory) = 0
                         THEN <<ChatMessage("model", analysisText)>>
                         ELSE chatHistory
           historyWithUser == Append(newHistory, ChatMessage("user", message))
       IN  IF apiKey
           THEN /\ chatHistory' = Append(historyWithUser, Placeholder)
                /\ calls' = Append(Disturbed(calls), NewCall("chat"))
                /\ requests' = NewRequest("chat",
                       BuildContents(newHistory, message, initialContextParts))
           ELSE /\ chatHistory' = Append(historyWithUser,
                       ChatMessage("model", ChatErrorText(ContinueKeyError)))
                /\ calls' = Disturbed(calls)
                /\ UNCHANGED requests
    /\ UNCHANGED <<apiKey, isLoading, isStreaming, result, error, initialContextParts>>
    /\ UNCHANGED <<fn, args, pc, fullText, chunksIn, onUpdateLog, thrown, viaExtract>>
    /\ UNCHANGED <<errorVars, parseVars>>

\* faulty variant: the service is handed the history with the new user turn
handleSendMessagePassesUserTurn(message) ==
    /\ Len(calls) < MaxInFlight
    /\ Len(chatHistory) + 2 < MaxTurns + 1
    /\ IF result = Null
       THEN UNCHANGED <<chatHistory, calls, requests>>
       ELSE LET historyWithUser == Append(NewHistory, ChatMessage("user", message))
            IN  IF apiKey
                THEN /\ chatHistory' = Append(historyWithUser, Placeholder)
                     /\ calls' = Append(Disturbed(calls), NewCall("chat"))
                     /\ requests' = NewRequest("chat",
                            BuildContents(historyWithUser, message, initialContextParts))
                ELSE /\ chatHistory' = Append(historyWithUser,
                            ChatMessage("model", ChatErrorText(ContinueKeyError)))
                     /\ calls' = Disturbed(calls)
                     /\ UNCHANGED requests
    /\ UNCHANGED <<apiKey, isLoading, isStreaming, result, error, initialContextParts>>
    /\ UNCHANGED <<fn, args, pc, fullText, chunksIn, onUpdateLog, thrown, viaExtract>>
    /\ UNCHANGED <<errorVars, parseVars>>

\* lines 75-99, and 110-121 when the key is missing
handleSendMessage(message) ==
    /\ Len(calls) < MaxInFlight
    /\ Len(chatHistory) + 2 < MaxTurns + 1
    /\ IF result = Null
       THEN UNCHANGED <<chatHistory, calls, requests>>
       ELSE LET historyWithUser == Append(NewHistory, ChatMessage("user", message))
            IN  IF apiKey
                THEN /\ chatHistory' = Append(historyWithUser, Placeholder)
                     /\ calls' = Append(Disturbed(calls), NewCall("chat"))
                     /\ requests' = NewRequest("chat",
                            BuildContents(NewHistory, message, initialContextParts))
                ELSE /\ chatHistory' = Append(historyWithUser,
                            ChatMessage("model", ChatErrorText(ContinueKeyError)))
                     /\ calls' = Disturbed(calls)
                     /\ UNCHANGED requests
    /\ UNCHANGED <<apiKey, isLoading, isStreaming, result, error, initialContextParts>>
    /\ UNCHANGED <<fn, args, pc, fullText, chunksIn, onUpdateLog, thrown, viaExtract>>
    /\ UNCHANGED <<errorVars, parseVars>>

\* faulty variant: the entry shows the text of the latest chunk only
ChatUpdateShowsChunk(i, c) ==
    /\ Streaming(i, "chat")
    /\ c = Absent \/ calls[i].n < MaxChunks
    /\ LET streamedText == AppendChunkText(calls[i].fullText, c)
       IN  /\ calls' = [calls EXCEPT ![i].fullText = streamedText,
                                     ![i].n = IF c = Absent THEN @ ELSE @ + 1]
           /\ chatHistory' = ReplaceLast(chatHistory,
                                ChatMessage("model", AppendChunkText(<< >>, c)))
    /\ UNCHANGED <<apiKey, isLoading, isStreaming, result, error, initialContextParts>>
    /\ UNCHANGED <<streamVars, errorVars, parseVars>>

\* lines 100-108 with geminiService.ts 186-190: one chunk of a follow-up stream
ChatUpdate(i, c) ==
    /\ Streaming(i, "chat")
    /\ c = Absent \/ calls[i].n < MaxChunks
    /\ LET streamedText == AppendChunkText(calls[i].fullText, c)
       IN  /\ calls' = [calls EXCEPT ![i].fullText = streamedText,
                                     ![i].n = IF c = Absent THEN @ ELSE @ + 1]
           /\ chatHistory' = ReplaceLast(chatHistory, ChatMessage("model", streamedText))
    /\ UNCHANGED <<apiKey, isLoading, isStreaming, result, error, initialContextParts>>
    /\ UNCHANGED <<streamVars, errorVars, parseVars>>

\* the follow-up stream ends: handleSendMessage returns (line 109)
ChatDone(i) ==
    /\ Streaming(i, "chat")
    /\ calls' = RemoveAt(calls, i)
    /\ UNCHANGED <<apiKey, isLoading, isStreaming, result, error, chatHistory,
                   initialContextParts>>
    /\ UNCHANGED <<streamVars, errorVars, parseVars>>

\* the follow-up stream fails: geminiService.ts 192-195, then lines 110-121
ChatFail(i, e) ==
    /\ Streaming(i, "chat")
    /\ calls' = RemoveAt(calls, i)
    /\ chatHistory' = ReplaceLast(chatHistory,
           ChatMessage("model", ChatErrorText(extractErrorMessage(e))))
    /\ UNCHANGED <<apiKey, isLoading, isStreaming, result, error, initialContextParts>>
    /\ UNCHANGED <<streamVars, errorVars, parseVars>>

\* lines 124-131
reset ==
    /\ result' = Null
    /\ error' = Null
    /\ isStreaming' = FALSE
    /\ chatHistory' = << >>
    /\ initialContextParts' = << >>
    /\ calls' = Outdated(calls)
    /\ requests' = OutdatedRequest(requests)
    /\ UNCHANGED <<apiKey, isLoading, errorVars, parseVars>>
    /\ UNCHANGED <<fn, args, pc, fullText, chunksIn, onUpdateLog, thrown, viaExtract>>

Init ==
    /\ apiKey \in BOOLEAN
    /\ InitSession /\ IdleStream /\ IdleError /\ IdleParse

Next ==
    \/ \E in \in SessionInputs : handleAnalyze(in.text, in.fileData, in.audioData)
    \/ \E i \in 1..Len(calls), c \in AnalysisChunkTexts : AnalysisUpdate(i, c)
    \/ \E i \in 1..Len(calls) : AnalysisDone(i)
    \/ \E i \in 1..Len(calls), e \in SessionErrors : AnalysisFail(i, e)
    \/ \E m \in UserMessages : handleSendMessage(m)
    \/ \E i \in 1..Len(calls), c \in ReplyChunkTexts : ChatUpdate(i, c)
    \/ \E i \in 1..Len(calls) : ChatDone(i)
    \/ \E i \in 1..Len(calls), e \in SessionErrors : ChatFail(i, e)
    \/ reset

Spec == Init /\ [][Next]_vars

\* ---- the start of an analysis over every shape of input ----
MediaPayloads == { <<"data:image/png;", Base64Marker, "IMG">>, <<"IMG">> }
MediaTypes == { << >>, <<"image/png">> }
MediaInputs ==
    {Null} \cup { [base64 |-> b, mimeType |-> t] : b \in MediaPayloads, t \in MediaTypes }
AnalysisInputs ==
    [text : { << >>, <<"check this river">> }, fileData : MediaInputs,
     audioData : MediaInputs]

NextInputs ==
    \/ \E in \in AnalysisInputs : handleAnalyze(in.text, in.fileData, in.audioData)
    \/ reset

SpecInputs == Init /\ [][NextInputs]_vars

(* ---- claims about the session ---- *)

IsChat(i) == i \in 1..Len(calls) /\ calls[i].kind = "chat"
HasPrefixError(text) == Len(text) > 1 /\ text[1] = "Error: "
\* the originalParts a continuation request carries: its opening user turn
RequestParts(contents) ==
    IF contents[1].role = "user" THEN contents[1].parts ELSE << >>
\* the message a continuation request ends with
RequestMessage(contents) == contents[Len(contents)].parts[1].text
ButLast(history) == SubSeq(history, 1, Len(history) - 1)

\* C1: a follow-up started on a completed analysis and an empty history, with
\* no other handler running meanwhile, leaves on completion exactly the three
\* entries (model: analysis text), (user: the message), (model: the reply).
C1_ThreeEntriesAfterCompletion ==
    [][\A i \in 1..Len(calls) :
          (ChatDone(i) /\ calls[i].clean /\ error = Null /\ ~isStreaming)
          => chatHistory' = << ChatMessage("model", result.text),
                               ChatMessage("user", RequestMessage(requests[1].contents)),
                               ChatMessage("model", calls[i].fullText) >>]_vars

\* C2: only a handler (reset, a new analysis, a follow-up call) changes the
\* length of the history or any entry but the last, so the stream of an
\* exchange, whether it delivers, completes or fails, writes at most over the
\* last entry, which was and stays a model entry; the follow-up call itself
\* adds exactly a user entry and a model entry, after the synthesized turn 0
\* when the history was empty.
C2_OneUserOneReplyPerCall ==
    [][ /\ (Len(chatHistory') # Len(chatHistory)
              \/ ButLast(chatHistory') # ButLast(chatHistory))
           => \/ reset
              \/ \E in \in SessionInputs :
                    handleAnalyze(in.text, in.fileData, in.audioData)
              \/ \E m \in UserMessages : handleSendMessage(m)
        /\ (Len(chatHistory') = Len(chatHistory) /\ chatHistory' # chatHistory)
           => /\ chatHistory[Len(chatHistory)].role = "model"
              /\ chatHistory'[Len(chatHistory)].role = "model"
              /\ \E i \in 1..Len(calls) : calls[i].kind = "chat"
        /\ \A m \in UserMessages :
            (Len(chatHistory') > Len(chatHistory) /\ handleSendMessage(m)) =>
               LET before == IF chatHistory = << >>
                             THEN <<ChatMessage("model", result.text)>>
                             ELSE chatHistory
                   n == Len(before)
               IN  /\ Len(chatHistory') = n + 2
                   /\ SubSeq(chatHistory', 1, n) = before
                   /\ chatHistory'[n + 1] = ChatMessage("user", m)
                   /\ chatHistory'[n + 2].role = "model"
                   /\ apiKey => chatHistory'[n + 2] = Placeholder]_vars

\* a reply entry that a stream has written over in place, during a second exchange
C2_Witness ==
    \E i \in 1..Len(calls) :
        /\ IsChat(i) /\ calls[i].n > 0
        /\ Len(chatHistory) = 5
        /\ chatHistory[4].role = "user"
        /\ chatHistory[5] = ChatMessage("model", calls[i].fullText)

C10_OriginalPartsCapturedOnce ==
    [][ /\ initialContextParts' # initialContextParts =>
            \/ reset
            \/ \E in \in SessionInputs :
                  /\ handleAnalyze(in.text, in.fileData, in.audioData)
                  /\ initialContextParts' =
                        ContextParts(in.text, in.fileData, in.audioData)
        /\ \A k \in 1..Len(requests') :
              (requests'[k].kind = "chat" /\ requests'[k].current)
              => RequestParts(requests'[k].contents) = initialContextParts']_vars

\* the second continuation request of a session that stored media parts
C10_Witness ==
    /\ requests # << >>
    /\ requests[1].kind = "chat" /\ requests[1].current
    /\ Len(requests[1].contents) > 4
    /\ Len(initialContextParts) > 0
    /\ IsInline(initialContextParts[1])
    /\ RequestParts(requests[1].contents) = initialContextParts

\* C11: without a result a follow-up call changes nothing: the chat history,
\* the result, the error, the stored parts and the calls in flight stay as
\* they are, and no request is issued.
C11_NoResultNoEffect ==
    [][\A m \in UserMessages :
          (result = Null /\ handleSendMessage(m))
          => /\ chatHistory' = chatHistory
             /\ result' = result
             /\ error' = error
             /\ initialContextParts' = initialContextParts
             /\ requests' = requests
             /\ calls' = calls]_vars

\* after a reset, with an earlier stream still in flight: a follow-up call
\* here meets no result
C11_Witness ==
    /\ result = Null
    /\ chatHistory = << >>
    /\ requests # << >> /\ ~requests[1].current
    /\ calls # << >>
    /\ ENABLED (\E m \in UserMessages : handleSendMessage(m))

\* the error state holds a non-empty message without "[object Object]" that
\* is not "{}"
ReadableError(err) ==
    /\ err # Null
    /\ err.s # << >>
    /\ ~IncludesOO(err.s)
    /\ err.s # EmptyObjectMarker

\* C13: an analysis that fails (on the missing key, or on a stream error
\* before or after some updates) ends with both flags false and a readable
\* error message; an analysis that succeeds ends with both flags false and no
\* error.
C13_AnalysisEndState ==
    [][ /\ \A i \in 1..Len(calls), e \in SessionErrors :
              (Len(calls') < Len(calls) /\ AnalysisFail(i, e))
              => ~isLoading' /\ ~isStreaming' /\ ReadableError(error')
        /\ \A in \in SessionInputs :
              (~apiKey /\ handleAnalyze(in.text, in.fileData, in.audioData))
              => ~isLoading' /\ ~isStreaming' /\ ReadableError(error')
        /\ \A i \in 1..Len(calls) :
              (Len(calls') < Len(calls) /\ AnalysisDone(i))
              => ~isLoading' /\ ~isStreaming' /\ error' = Null ]_vars

InFlight(i, kind) == i \in 1..Len(calls) /\ calls[i].kind = kind /\ calls[i].current

\* C14: no follow-up exchange of the current session is in flight while the
\* analysis stream of that session is in flight (so that turn 0 would always
\* be synthesized from the complete analysis text).
C14_FollowUpOnlyAfterAnalysis ==
    \A i, j \in 1..Len(calls) : ~(InFlight(i, "analysis") /\ InFlight(j, "chat"))

\* the entries of the history other than entry k are the same after the step
OnlyEntryWritten(k) ==
    /\ Len(chatHistory') = Len(chatHistory)
    /\ \A j \in 1..Len(chatHistory) : j # k => chatHistory'[j] = chatHistory[j]

\* C15: with follow-ups overlapping, each stream of the current session
\* writes its updates and its error only into the model entry its own call
\* appended; every other entry is left as it is.
C15_StreamsFillOwnPlaceholder ==
    [][ /\ \A i \in 1..Len(calls), c \in ReplyChunkTexts :
              (ChatUpdate(i, c) /\ calls[i].current) => OnlyEntryWritten(calls[i].slot)
        /\ \A i \in 1..Len(calls), e \in SessionErrors :
              (Len(calls') < Len(calls) /\ ChatFail(i, e) /\ calls[i].current)
              => OnlyEntryWritten(calls[i].slot) ]_vars

\* the history a follow-up call starts from, turn 0 included
HistoryBeforeCall ==
    IF chatHistory = << >> THEN <<ChatMessage("model", result.text)>> ELSE chatHistory
ReplayedTurn(entry) == Turn(entry.role, <<TextPart(entry.text)>>)

\* C16: the request a follow-up call issues replays, after the opening turn
\* (if any), exactly the entries of the history as it stood before the call
\* (turn 0 included), one turn each and in order, and ends with one user turn
\* holding the new message; the user entry and the placeholder the call
\* appends to the history are not replayed.
C16_RequestReplaysHistoryBeforeCall ==
    [][\A m \in UserMessages :
          (apiKey /\ result # Null /\ handleSendMessage(m)) =>
             LET contents == requests'[1].contents
                 opening == IF Len(initialContextParts) > 0 THEN 1 ELSE 0
                 n == Len(HistoryBeforeCall)
             IN  /\ Len(contents) = opening + n + 1
                 /\ \A k \in 1..n :
                       contents[opening + k] = ReplayedTurn(HistoryBeforeCall[k])
                 /\ contents[opening + n + 1] = ReplayedTurn(ChatMessage("user", m))
                 /\ chatHistory' = HistoryBeforeCall
                                   \o <<ChatMessage("user", m), Placeholder>>]_vars

\* the request of a second exchange, issued after the first reply arrived
C16_Witness ==
    /\ requests # << >>
    /\ requests[1].kind = "chat" /\ requests[1].current
    /\ Len(chatHistory) = 5
    /\ chatHistory[3] = ChatMessage("model", <<"r">>)
    /\ chatHistory[5] = Placeholder
    /\ Len(initialContextParts) > 0
    /\ Len(requests[1].contents) = 5
    /\ requests[1].contents[4] = ReplayedTurn(chatHistory[3])
    /\ requests[1].contents[5] = ReplayedTurn(chatHistory[4])

\* C17: an update of a follow-up stream puts the text accumulated by its
\* call into the last history entry and changes nothing else: not the length
\* of the history, not an earlier entry, not the result, not the stored parts.
C17_UpdateWritesLastEntryOnly ==
    [][\A i \in 1..Len(calls), c \in ReplyChunkTexts :
          (Len(calls') = Len(calls) /\ ChatUpdate(i, c)) =>
             /\ Len(chatHistory') = Len(chatHistory)
             /\ ButLast(chatHistory') = ButLast(chatHistory)
             /\ chatHistory # << >> =>
                   /\ chatHistory[Len(chatHistory)].role = "model"
                   /\ chatHistory'[Len(chatHistory)] =
                         ChatMessage("model", calls'[i].fullText)
             /\ result' = result
             /\ initialContextParts' = initialContextParts]_vars

\* the reply of a first exchange, accumulated so far, in the last entry
C17_Witness ==
    /\ Len(chatHistory) = 3
    /\ Len(calls) = 1 /\ IsChat(1)
    /\ calls[1].fullText = <<"r">>
    /\ chatHistory[3] = ChatMessage("model", <<"r">>)

\* C18: the first follow-up call on an empty history puts a model entry with
\* the text of the result at that moment in front and starts only its own
\* service call; a follow-up call on a non-empty history adds no such entry;
\* and while the history stays non-empty no step changes its first entry.
C18_TurnZeroSynthesizedOnce ==
    [][ /\ \A m \in UserMessages :
              (result # Null /\ handleSendMessage(m)) =>
                 /\ Len(calls') <= Len(calls) + 1
                 /\ requests' # requests => requests'[1].kind = "chat"
                 /\ IF chatHistory = << >>
                    THEN /\ Len(chatHistory') = 3
                         /\ chatHistory'[1] = ChatMessage("model", result.text)
                    ELSE /\ Len(chatHistory') = Len(chatHistory) + 2
                         /\ chatHistory'[1] = chatHistory[1]
        /\ (chatHistory # << >> /\ chatHistory' # << >>)
           => chatHistory'[1] = chatHistory[1] ]_vars

\* a second exchange of a session whose analysis delivered text: turn 0 is
\* still the only entry holding the analysis text
C18_Witness ==
    /\ result # Null /\ result.text # << >>
    /\ Len(chatHistory) = 5
    /\ chatHistory[1] = ChatMessage("model", result.text)
    /\ chatHistory[2].role = "user" /\ chatHistory[4].role = "user"
    /\ \A k \in 2..5 : chatHistory[k].text # result.text

\* the analysis call of the session has ended: a result exists and no
\* analysis stream of this session is in flight
AnalysisEnded ==
    /\ result # Null
    /\ ~\E i \in 1..Len(calls) : calls[i].kind = "analysis" /\ calls[i].current

\* C24 as stated: once the analysis call of the session has ended, the
\* result is changed by nothing but the start of the next analysis or reset.
C24_ResultFrozenAfterStreamEnds ==
    [][(AnalysisEnded /\ result' # result) =>
          \/ reset
          \/ \E in \in SessionInputs :
                handleAnalyze(in.text, in.fileData, in.audioData)]_vars

Destroyed == result = Null /\ chatHistory = << >> /\ initialContextParts = << >>

\* C25 as stated: reset leaves the result absent, the chat history empty and
\* the stored context parts empty, and from such a state only the start of
\* an analysis ends it, whatever streams started earlier deliver or fail.
C25_ResetStaysDestroyed ==
    [][ /\ reset => Destroyed'
        /\ (Destroyed /\ ~Destroyed') =>
              \E in \in SessionInputs :
                 handleAnalyze(in.text, in.fileData, in.audioData)]_vars

\* a step of the stream of call i: an update, its end or its failure
StreamStep(i) ==
    \/ \E c \in AnalysisChunkTexts : AnalysisUpdate(i, c)
    \/ AnalysisDone(i)
    \/ \E e \in SessionErrors : AnalysisFail(i, e)
    \/ \E c \in ReplyChunkTexts : ChatUpdate(i, c)
    \/ ChatDone(i)
    \/ \E e \in SessionErrors : ChatFail(i, e)

\* C26 as stated: once an analysis has been started (the context parts are
\* stored until reset), no step of a stream that belongs to an earlier
\* session changes the result or the chat history.
C26_NoStreamCrossesSessions ==
    [][\A i \in 1..Len(calls) :
          (~calls[i].current /\ initialContextParts # << >> /\ StreamStep(i))
          => /\ result' = result
             /\ chatHistory' = chatHistory]_vars

\* the parts of the analysis request the current session sent
SentParts == requests[1].contents[1].parts

\* C27 as stated: whatever the input, the context parts stored by
\* handleAnalyze are element for element the parts of the analysis request
\* sent for it.
C27_StoredPartsEqualSentParts ==
    (requests # << >> /\ requests[1].kind = "analysis" /\ requests[1].current)
        => initialContextParts = SentParts

\* C28 as stated: when the stream of a follow-up ends or fails, the model
\* entry appended for that follow-up no longer holds the interim text.
C28_PlaceholderResolved ==
    [][\A i \in 1..Len(calls) :
          ( /\ IsChat(i)
            /\ calls[i].slot \in 1..Len(chatHistory)
            /\ ChatDone(i) \/ \E e \in SessionErrors : ChatFail(i, e) )
          => chatHistory'[calls[i].slot] # Placeholder]_vars

\* C29 as stated: in the request a follow-up call issues no model turn
\* carries the interim text, and no replayed turn is the entry of an exchange
\* whose stream is still in flight.
C29_OnlyCompletedTurnsReplayed ==
    [][\A m \in UserMessages :
          (apiKey /\ result # Null /\ handleSendMessage(m)) =>
             LET contents == requests'[1].contents
                 opening == IF Len(initialContextParts) > 0 THEN 1 ELSE 0
                 n == Len(contents) - opening - 1
             IN  /\ \A k \in 1..Len(contents) :
                       contents[k].role = "model"
                          => contents[k].parts[1].text # Placeholder.text
                 /\ \A i \in 1..Len(calls) :
                       (IsChat(i) /\ calls[i].current) => calls[i].slot \notin 1..n]_vars

====
